---- MODULE Spec2Model ----
(***************************************************************************)
(* MetaPilot backend (metapilot-backend/backend): the condition-monitoring *)
(* -> queueing -> execution pipeline for ETH transfer tasks.               *)
(*                                                                         *)
(*   - taskRoutes.ts            create / status update / delete handlers   *)
(*   - TaskMonitorProcessor.ts  monitorTaskConditions (the poll cycle)     *)
(*   - TaskExecutionProcessor.ts executeTask (the execution worker)        *)
(*                                                                         *)
(* Time is counted in minutes.  Every await of the code is a point where   *)
(* another handler may run, so the poll cycle and the worker are split at  *)
(* their awaits: PollStart / PollCheck, WorkerDequeue / WorkerFinish.      *)
(* The store is MongoDB through Mongoose: findOneAndUpdate is atomic,      *)
(* document.save() writes the paths the caller modified ($set) and pushes  *)
(* to arrays ($push).  The queue is Bull: a job whose processor throws is  *)
(* retried while attemptsMade < attempts, a processor that returns ends    *)
(* the job.                                                                *)
(*                                                                         *)
(* The repository holds a second backend (meta-pilot-backend/src) with its *)
(* own store and queues: task.controller.ts, task.scheduler.ts,            *)
(* task.processor.ts, queue.provider.ts.  Its BullMQ workers run with      *)
(* concurrency 5, so two jobs of one task can be in their processor at the *)
(* same time.  It is modelled by the variables taskB, queueB, processors   *)
(* and the specification SpecB; the two backends share only the clock.     *)
(*                                                                         *)
(* Two more specifications look closer at parts of the ETH-transfer        *)
(* backend.  SpecE follows one task with its rule spelled out: the         *)
(* conditions stored at creation, the value the data gateway returns and   *)
(* the switch of handleETHTransferCondition.  SpecP follows two tasks      *)
(* through the monitoring queue and the execution queue of                 *)
(* QueueService.ts, with fairness for the poll cycle only.                 *)
(*                                                                         *)
(* In SpecP the store accepts the poller's writes; SpecQ is the same       *)
(* system on a store that may reject the writes of a task's document.      *)
(* SpecX holds the delegations of one user (SessionKeyService.ts) and one  *)
(* call of executeETHTransfer at a time: the agent path, the direct path   *)
(* and what is reported back to executeTask.  SpecR is the minute counter  *)
(* of one API key in the rate limiter of the second backend                *)
(* (utils/rate-limit.ts, services/apikey.service.ts), with time in         *)
(* milliseconds.                                                           *)
(***************************************************************************)
EXTENDS Integers, Sequences, FiniteSets, TLC

\* ---------------------------------------------------------------- bounds
MaxTime == 2
MaxJobs == 3
MaxHist == 2

\* ------------------------------------------------------ program constants
\* createETHTransferTask: nextCheckAt = Date.now() + 60000
CreateDelay == 1
\* monitorTaskConditions, condition not met: Date.now() + 5 * 60 * 1000
NotMetDelay == 5
\* monitorTaskConditions, catch branch: Date.now() + 15 * 60 * 1000
ErrorDelay == 15
\* executionQueue.add options: attempts: 3
Attempts == 3

\* The tasks of the model.  Tasks share nothing but the execution queue and
\* the poll cycle, and every operation below works on one task at a time.
Tasks == {"task1"}
NoDate == -1

\* TaskStatus of models/Task.ts, plus the two states of a record that is
\* not in the collection: not yet created, and deleted.
TaskStatus == {"active", "paused", "completed", "pending", "failed"}
Absent == {"none", "deleted"}

VARIABLES
  now,               \* the wall clock, in minutes
  status,            \* task.status, or "none" / "deleted"
  sessionKeyId,      \* TRUE iff task.sessionKeyId is set
  executionType,     \* task.configuration.executionType
  nextCheckAt,       \* task.nextCheckAt
  lastCheckedAt,     \* task.lastCheckedAt
  lastExecutedAt,    \* task.lastExecutedAt
  executionHistory,  \* task.executionHistory
  pollTasks,         \* tasks found by the running poll cycle, not yet processed
  jobs,              \* the execution queue: every job ever added, in order
  metCount,          \* history: per task, checks in which the condition was met
  pollSkipped,       \* history: stored tasks with nextCheckAt <= now that the
                     \* last Task.find of a poll cycle did not return
  lastResult,        \* history: the executionResult that executeETHTransfer
                     \* returned in the step just taken, "none" in other steps
  lastCheckError     \* history: the step just taken is a check of the poll
                     \* cycle in which fetching the data or saving threw

vars == <<now, status, sessionKeyId, executionType, nextCheckAt, lastCheckedAt,
          lastExecutedAt, executionHistory, pollTasks, jobs, metCount,
          pollSkipped, lastResult, lastCheckError>>

taskVars == <<status, sessionKeyId, executionType, nextCheckAt, lastCheckedAt,
              lastExecutedAt, executionHistory>>

JobIds == 1..Len(jobs)

Exists(t) == status[t] \notin Absent

Init ==
  /\ now = 0
  /\ status = [t \in Tasks |-> "none"]
  /\ sessionKeyId = [t \in Tasks |-> FALSE]
  /\ executionType = [t \in Tasks |-> "one-time"]
  /\ nextCheckAt = [t \in Tasks |-> NoDate]
  /\ lastCheckedAt = [t \in Tasks |-> NoDate]
  /\ lastExecutedAt = [t \in Tasks |-> NoDate]
  /\ executionHistory = [t \in Tasks |-> <<>>]
  /\ pollTasks = {}
  /\ jobs = <<>>
  /\ metCount = [t \in Tasks |-> 0]
  /\ pollSkipped = {}
  /\ lastResult = "none"
  /\ lastCheckError = FALSE

\* ---------------------------------------- the second backend's state
\* The processors of the model: two of the up to five jobs a BullMQ worker
\* runs at the same time.
Processors == {"p1", "p2"}

VARIABLES
  taskB,        \* the stored task: status ("none" / "deleted" when not in the
                \* collection), type, once (the buy_token rule's condition
                \* contains 'once'), lastExecuted, executionHistory
  queueB,       \* jobs waiting in the queue of the task's type
  processors,   \* per processor: pc, the executionHistory of the document it
                \* loaded (doc), the record it pushed to that document (entry)
  appendCount,  \* history: records that a save has appended
  staleSave     \* history: a save has appended on top of a history that was
                \* longer than the one its processor had loaded

varsB == <<taskB, queueB, processors, appendCount, staleSave>>

ExistsB == taskB.status \notin Absent

NoEntry == [status |-> "none", timestamp |-> NoDate, errorMessage |-> FALSE]

Idle == [pc |-> "idle", doc |-> <<>>, entry |-> NoEntry]

InitB ==
  /\ taskB = [status |-> "none", type |-> "dao_vote", once |-> FALSE,
              lastExecuted |-> NoDate, executionHistory |-> <<>>]
  /\ queueB = 0
  /\ processors = [p \in Processors |-> Idle]
  /\ appendCount = 0
  /\ staleSave = FALSE

\* ------------------------------- one ETH transfer task with its rule
\* What the pipeline above abstracts into dataMet is spelled out here for one
\* task: its stored conditions, the value the data gateway returns and the
\* switch of handleETHTransferCondition.  Gas prices are in gwei, prices in
\* dollars, balances in ether; the code compares BigInt values, which have no
\* width.
ConditionTypes ==
  {"price_threshold", "balance_threshold", "gas_price", "time_based", "other"}

\* BlockchainService.getETHPrice: return '300000000000' ($3000.00 with 8
\* decimals), whatever the market does.
MockPrice == 3000

Thresholds == {20, 2900, 3000, 3100}
Readings == {15, 20, 25}
ReferencePrices == {NoDate, 3150}

NoConditions ==
  [type |-> "below", conditionType |-> "other", present |-> FALSE,
   threshold |-> 20, referencePrice |-> NoDate]

NoCheck ==
  [reading |-> NoDate, threw |-> FALSE, met |-> FALSE, branch |-> "none"]

VARIABLES
  taskE,    \* the stored task: status, sessionKeyId, conditions (the type
            \* and threshold of the condition object of its conditionType;
            \* present: that object is there; referencePrice), nextCheckAt,
            \* lastCheckedAt
  queueE,   \* jobs added to the execution queue
  checkE    \* history: the check of the step just taken: the value the
            \* gateway returned, whether fetching or converting threw, what
            \* handleETHTransferCondition returned (met) and the branch of
            \* the poll cycle's loop body that ran

varsE == <<taskE, queueE, checkE>>

InitE ==
  /\ taskE = [status |-> "none", sessionKeyId |-> FALSE,
              conditions |-> NoConditions, nextCheckAt |-> NoDate,
              lastCheckedAt |-> NoDate]
  /\ queueE = 0
  /\ checkE = NoCheck

\* --------------------------------- the poller and the worker, two tasks
\* The two Bull queues of QueueService.ts, 'eth-transfer-monitor' and
\* 'eth-transfer-execution', each with its own processor, seen from two
\* tasks at once.  Of a task only what the poll cycle's query looks at is
\* kept: whether it is active with nextCheckAt <= now (due).
TasksP == {"t1", "t2"}

VARIABLES
  dueP,          \* per task: active and nextCheckAt <= now
  cycleP,        \* tasks found by the running poll cycle, not yet processed
  queueP,        \* the waiting jobs of the execution queue, by task, in order
  workerP,       \* the task whose job is inside executeETHTransfer, or "idle"
  lastCheckedP   \* history: the task the step just taken has checked, or "none"

varsP == <<dueP, cycleP, queueP, workerP, lastCheckedP>>

InitP ==
  /\ dueP = [t \in TasksP |-> FALSE]
  /\ cycleP = {}
  /\ queueP = <<>>
  /\ workerP = "idle"
  /\ lastCheckedP = "none"

\* ------------------------------------- delegations and one execution
\* User.delegations of the one user, by session key address, and what one
\* call of executeETHTransfer for the task does with them.  The task's
\* sessionKeyId is TaskKey; the user may hold a second delegation.
SessionKeys == {"k1", "k2"}
TaskKey == "k1"
DelegationStatus == {"active", "expired", "revoked"}

\* No delegation is stored for the session key.
NoDelegation ==
  [status |-> "none", pastExpiry |-> FALSE, permitted |-> FALSE,
   privateKey |-> FALSE]

\* No execution has just run.
NoAttempt ==
  [valid |-> FALSE, agentSent |-> FALSE, directSent |-> FALSE,
   confirmed |-> FALSE, reported |-> "none"]

\* No permission check has just run.
NoPermission == [key |-> "none", result |-> FALSE]

VARIABLES
  delegations,   \* per session key: status, whether expiresAt has passed
                 \* (pastExpiry), whether its permissions name the executor's
                 \* transfer function (permitted), whether a private key is
                 \* stored with it
  agentId,       \* user.agentId is set
  attempt,       \* history: what the execution that has just run did
  permission     \* history: the hasPermission call that has just run

varsX == <<delegations, agentId, attempt, permission>>

InitX ==
  /\ delegations = [k \in SessionKeys |-> NoDelegation]
  /\ agentId = FALSE
  /\ attempt = NoAttempt
  /\ permission = NoPermission

\* --------------------------------------------- the API key rate limiter
\* rateLimitCache of the API key service, for the minute counter of one API
\* key.  Times are in milliseconds, as Date.now() gives them.
WindowArg == 60           \* the windowMs validateApiKey passes to increment
MinuteMs == 60000         \* one minute, the window of the cache's constructor
RequestsPerMinute == 2    \* rateLimits.requestsPerMinute of the key
ClockSteps == {30, 61}    \* by how much the clock moves between two events
MaxClock == 190           \* the clock stops here
MaxAccepted == 3          \* accepted requests that are kept
MaxCount == RequestsPerMinute + 2

\* limits has no entry for the key.
NoCounter == [count |-> 0, resetAt |-> NoDate]

VARIABLES
  clockR,        \* Date.now()
  counterR,      \* limits.get(`${keyId}_minute`)
  acceptedR,     \* history: the times of the requests answered valid: true
  lastR          \* history: the answer to the request just made, or "none"

varsR == <<clockR, counterR, acceptedR, lastR>>

InitR ==
  /\ clockR = 0
  /\ counterR = NoCounter
  /\ acceptedR = <<>>
  /\ lastR = "none"

\* ------------------------------------------------------------------ clock
Tick ==
  /\ now < MaxTime
  /\ now' = now + 1
  /\ UNCHANGED <<taskVars, pollTasks, jobs, metCount, pollSkipped>>
  /\ lastResult' = "none"
  /\ lastCheckError' = FALSE
  /\ UNCHANGED <<varsB, taskE, queueE, varsP, varsX, varsR>>
  /\ checkE' = NoCheck

\* ------------------------------------------------------------ taskRoutes
\* createETHTransferTaskHandler: status is active iff a session key is given.
\* Mutant of CreateStatus: every new task is active.
CreateStatus_AlwaysActive(hasKey) == "active"

CreateStatus(hasKey) == IF hasKey THEN "active" ELSE "pending"

CreateTask(t, hasKey, etype) ==
  /\ status[t] = "none"
  /\ status' = [status EXCEPT ![t] = CreateStatus(hasKey)]
  /\ sessionKeyId' = [sessionKeyId EXCEPT ![t] = hasKey]
  /\ executionType' = [executionType EXCEPT ![t] = etype]
  /\ nextCheckAt' = [nextCheckAt EXCEPT ![t] = now + CreateDelay]
  /\ UNCHANGED <<now, lastCheckedAt, lastExecutedAt, executionHistory,
                 pollTasks, jobs, metCount, pollSkipped>>
  /\ lastResult' = "none"
  /\ lastCheckError' = FALSE
  /\ UNCHANGED <<varsB, varsE, varsP, varsX, varsR>>

\* updateTaskStatusHandler: Task.findOneAndUpdate({_id, userId}, {status}).
\* The new status a request for `requested` writes over `current`.
StatusUpdate(current, requested) == requested

UpdateTaskStatus(t, s) ==
  /\ Exists(t)
  /\ s \in {"active", "paused"}
  /\ status' = [status EXCEPT ![t] = StatusUpdate(status[t], s)]
  /\ UNCHANGED <<now, sessionKeyId, executionType, nextCheckAt, lastCheckedAt,
                 lastExecutedAt, executionHistory, pollTasks, jobs, metCount, pollSkipped>>
  /\ lastResult' = "none"
  /\ lastCheckError' = FALSE
  /\ UNCHANGED <<varsB, varsE, varsP, varsX, varsR>>

\* deleteTaskHandler: Task.findOneAndDelete.
DeleteTask(t) ==
  /\ Exists(t)
  /\ status' = [status EXCEPT ![t] = "deleted"]
  /\ UNCHANGED <<now, sessionKeyId, executionType, nextCheckAt, lastCheckedAt,
                 lastExecutedAt, executionHistory, pollTasks, jobs, metCount, pollSkipped>>
  /\ lastResult' = "none"
  /\ lastCheckError' = FALSE
  /\ UNCHANGED <<varsB, varsE, varsP, varsX, varsR>>

\* -------------------------------------------------- TaskMonitorProcessor
\* monitorTaskConditions: Task.find({type, status: 'active', network,
\* nextCheckAt: {$lte: new Date()}}).
\* Mutant of IsDue: the query without its status filter.
IsDue_AnyStatus(t, time) ==
  /\ nextCheckAt[t] # NoDate
  /\ nextCheckAt[t] <= time

IsDue(t, time) ==
  /\ status[t] = "active"
  /\ nextCheckAt[t] # NoDate
  /\ nextCheckAt[t] <= time

DueTasks(time) == {t \in Tasks : IsDue(t, time)}

\* The repeatable monitoring job fires; the previous cycle has finished
\* (monitoringQueue.process runs one job at a time).
PollStart ==
  /\ pollTasks = {}
  /\ pollTasks' = DueTasks(now)
  /\ pollSkipped' = {t \in Tasks : Exists(t) /\ nextCheckAt[t] <= now} \ DueTasks(now)
  /\ UNCHANGED <<now, taskVars, jobs, metCount>>
  /\ lastResult' = "none"
  /\ lastCheckError' = FALSE
  /\ UNCHANGED <<varsB, varsE, varsP, varsX, varsR>>

\* handleETHTransferCondition: false without a session key; false when
\* fetching the price, balance or gas price throws (the function's catch);
\* otherwise what the comparison against the fetched data gives (dataMet).
handleETHTransferCondition(hasKey, dataMet, fetchThrows) ==
  hasKey /\ ~fetchThrows /\ dataMet

\* executionQueue.add({taskId, taskType, network}, {attempts: 3, backoff}).
NewJob(t) == [task |-> t, state |-> "waiting", attemptsMade |-> 0]

\* Mutant of Enqueue: no second job while one for the task is still waiting.
Enqueue_Dedup(queue, t) ==
  IF \E k \in 1..Len(queue) : queue[k].task = t /\ queue[k].state = "waiting"
  THEN queue
  ELSE Append(queue, NewJob(t))

Enqueue(queue, t) == Append(queue, NewJob(t))

\* The nextCheckAt the loop body leaves in the stored task whose value was
\* `current`: not written when the condition was met, now + 5 min when it was
\* not (handleETHTransferCondition also returns false when fetching the data
\* fails), now + 15 min when the body threw and the catch branch ran.
\* Mutant of NextCheckAfter: the catch branch and the not-met branch only
\* stamp lastCheckedAt.
NextCheckAfter_NoDelay(current, conditionMet, threw, time) == current

\* Mutant of NextCheckAfter: the catch branch takes the task out of polling.
NextCheckAfter_ParkOnError(current, conditionMet, threw, time) ==
  IF threw THEN NoDate
  ELSE IF conditionMet THEN current
  ELSE time + NotMetDelay

NextCheckAfter(current, conditionMet, threw, time) ==
  IF threw THEN time + ErrorDelay
  ELSE IF conditionMet THEN current
  ELSE time + NotMetDelay

\* The body of the for loop for one task of the cycle, run on the document
\* the cycle's Task.find returned.  executionQueue.add is taken to succeed.
\* saveOk = FALSE is a first task.save() that rejects, which takes the catch
\* branch; a save of a document deleted meanwhile changes nothing.
PollCheck(t, dataMet, fetchThrows, saveOk) ==
  LET conditionMet ==
        handleETHTransferCondition(sessionKeyId[t], dataMet, fetchThrows)
      stored == Exists(t)
  IN
  /\ t \in pollTasks
  /\ conditionMet => Len(jobs) < MaxJobs
  /\ pollTasks' = pollTasks \ {t}
  /\ jobs' = IF conditionMet THEN Enqueue(jobs, t) ELSE jobs
  /\ metCount' = IF conditionMet THEN [metCount EXCEPT ![t] = @ + 1] ELSE metCount
  /\ lastCheckedAt' = IF stored THEN [lastCheckedAt EXCEPT ![t] = now]
                      ELSE lastCheckedAt
  /\ nextCheckAt' =
       IF stored
       THEN [nextCheckAt EXCEPT ![t] = NextCheckAfter(@, conditionMet, ~saveOk, now)]
       ELSE nextCheckAt
  /\ UNCHANGED <<now, status, sessionKeyId, executionType, lastExecutedAt,
                 executionHistory, pollSkipped>>
  /\ lastResult' = "none"
  /\ lastCheckError' = (fetchThrows \/ ~saveOk)
  /\ UNCHANGED <<varsB, varsE, varsP, varsX, varsR>>

\* ------------------------------------------------ TaskExecutionProcessor
\* Bull: the processor threw.  The job waits for its backoff while attempts
\* are left, and is failed for good after the last one.
FailAttempt(job) ==
  [job EXCEPT !.attemptsMade = @ + 1,
              !.state = IF job.attemptsMade + 1 < Attempts THEN "delayed"
                        ELSE "failed"]

\* executeTask up to the await of executeETHTransfer: what becomes of the job
\* given the task the worker has just read.
\*   "throw"  task not found, or task without a session key
\*   "skip"   task not active: return without executing
\*   "run"    go on to executeETHTransfer
\* Mutant of Admission: the worker does not look at the status it re-read.
Admission_NoStatusCheck(taskStatus, hasKey) ==
  IF taskStatus \in Absent THEN "throw"
  ELSE IF ~hasKey THEN "throw"
  ELSE "run"

Admission(taskStatus, hasKey) ==
  IF taskStatus \in Absent THEN "throw"
  ELSE IF taskStatus # "active" THEN "skip"
  ELSE IF ~hasKey THEN "throw"
  ELSE "run"

\* Mutant of WorkerFree: the processor takes a job while another is running.
WorkerFree_Concurrent == TRUE

\* executionQueue.process(executeTask) is registered without a concurrency
\* argument: Bull hands the processor one job at a time.
WorkerFree == \A k \in JobIds : jobs[k].state # "active"

\* executionQueue.process(executeTask): one job at a time, the waiting jobs
\* in the order they were added.
WorkerDequeue(j) ==
  LET t == jobs[j].task
      a == Admission(status[t], sessionKeyId[t])
  IN
  /\ j \in JobIds
  /\ jobs[j].state = "waiting"
  /\ WorkerFree
  /\ \A k \in 1..(j - 1) : jobs[k].state # "waiting"
  /\ a = "run" => Len(executionHistory[t]) < MaxHist
  /\ jobs' = [jobs EXCEPT ![j] =
                IF a = "throw" THEN FailAttempt(@)
                ELSE IF a = "skip" THEN [@ EXCEPT !.state = "completed"]
                ELSE [@ EXCEPT !.state = "active"]]
  /\ UNCHANGED <<now, taskVars, pollTasks, metCount, pollSkipped>>
  /\ lastResult' = "none"
  /\ lastCheckError' = FALSE
  /\ UNCHANGED <<varsB, varsE, varsP, varsX, varsR>>

\* The history entry executeTask builds from executionResult.  error is TRUE
\* iff executionResult.error is set: every result with success: false that
\* executeETHTransfer or BlockchainService.executeETHTransfer returns carries
\* an error string, and no successful one does.
\* Mutant of HistoryEntry: the entry is built without executionResult.error.
HistoryEntry_NoError(success, time) ==
  [status |-> IF success THEN "success" ELSE "failed", timestamp |-> time,
   error |-> FALSE]

HistoryEntry(success, time) ==
  [status |-> IF success THEN "success" ELSE "failed", timestamp |-> time,
   error |-> ~success]

\* task.executionHistory.push(historyEntry).
\* Mutant of PushHistory: the new entry is put in front (unshift).
PushHistory_Unshift(history, entry) == <<entry>> \o history

\* Mutant of PushHistory: the entry is built but never pushed.
PushHistory_Drop(history, entry) == history

PushHistory(history, entry) == Append(history, entry)

\* The status executeTask leaves in the document it saves: completed for a
\* one-time task whose execution succeeded, otherwise not written, so the
\* stored value stays.
\* Mutants of StatusAfterExecution: the worker never writes status; the
\* worker marks the task failed when the execution failed.
StatusAfterExecution_Keep(stored, etype, success) == stored

StatusAfterExecution_FailedOnError(stored, etype, success) ==
  IF ~success THEN "failed"
  ELSE IF etype = "one-time" THEN "completed"
  ELSE stored

StatusAfterExecution(stored, etype, success) ==
  IF etype = "one-time" /\ success THEN "completed" ELSE stored

\* executeTask from the return of executeETHTransfer to the end.  The
\* execution never throws (executeETHTransfer catches and returns
\* success: false).  saveThrows is task.save() on a document that has been
\* deleted meanwhile, which rejects or does nothing depending on the Mongoose
\* version.
WorkerFinish(j, success, saveThrows) ==
  LET t == jobs[j].task IN
  /\ j \in JobIds
  /\ jobs[j].state = "active"
  /\ saveThrows => ~Exists(t)
  /\ IF Exists(t)
     THEN /\ executionHistory' = [executionHistory EXCEPT ![t] =
                                    PushHistory(@, HistoryEntry(success, now))]
          /\ lastExecutedAt' = [lastExecutedAt EXCEPT ![t] = now]
          /\ status' = [status EXCEPT ![t] =
                          StatusAfterExecution(@, executionType[t], success)]
     ELSE UNCHANGED <<executionHistory, lastExecutedAt, status>>
  /\ jobs' = [jobs EXCEPT ![j] =
                IF saveThrows THEN FailAttempt(@)
                ELSE [@ EXCEPT !.state = "completed"]]
  /\ UNCHANGED <<now, sessionKeyId, executionType, nextCheckAt, lastCheckedAt,
                 pollTasks, metCount, pollSkipped>>
  /\ lastResult' = IF success THEN "success" ELSE "failed"
  /\ lastCheckError' = FALSE
  /\ UNCHANGED <<varsB, varsE, varsP, varsX, varsR>>

\* Bull: the backoff of a delayed job has elapsed.
JobRetry(j) ==
  /\ j \in JobIds
  /\ jobs[j].state = "delayed"
  /\ jobs' = [jobs EXCEPT ![j].state = "waiting"]
  /\ UNCHANGED <<now, taskVars, pollTasks, metCount, pollSkipped>>
  /\ lastResult' = "none"
  /\ lastCheckError' = FALSE
  /\ UNCHANGED <<varsB, varsE, varsP, varsX, varsR>>

Next ==
  \/ Tick
  \/ \E t \in Tasks, k \in BOOLEAN, e \in {"one-time", "recurring"} : CreateTask(t, k, e)
  \/ \E t \in Tasks, s \in {"active", "paused"} : UpdateTaskStatus(t, s)
  \/ \E t \in Tasks : DeleteTask(t)
  \/ PollStart
  \/ \E t \in Tasks, m \in BOOLEAN, th \in BOOLEAN, ok \in BOOLEAN :
       PollCheck(t, m, th, ok)
  \/ \E j \in JobIds : WorkerDequeue(j)
  \/ \E j \in JobIds, ok \in BOOLEAN, th \in BOOLEAN : WorkerFinish(j, ok, th)
  \/ \E j \in JobIds : JobRetry(j)

\* ======================================================== second backend
\* ------------------------------------------------------- task.scheduler
\* scheduleTask: enqueueTask(task.type, ...) unless the task is not active.
scheduleTask(taskStatus, queue) ==
  IF taskStatus = "active" THEN queue + 1 ELSE queue

\* scheduleTasksByType, run by the cron entry of the task's type.
scheduleTasksByType ==
  /\ taskB.status = "active"
  /\ queueB < MaxJobs
  /\ queueB' = scheduleTask(taskB.status, queueB)
  /\ UNCHANGED <<taskB, processors, appendCount, staleSave>>
  /\ UNCHANGED <<vars, varsE, varsP, varsX, varsR>>

\* ------------------------------------------------------ task.controller
\* createTask: Task.create({..., status: ACTIVE}), then scheduleTask.
createTask(type, once) ==
  /\ taskB.status = "none"
  /\ once => type = "buy_token"
  /\ queueB < MaxJobs
  /\ taskB' = [taskB EXCEPT !.status = "active", !.type = type, !.once = once]
  /\ queueB' = scheduleTask("active", queueB)
  /\ UNCHANGED <<processors, appendCount, staleSave>>
  /\ UNCHANGED <<vars, varsE, varsP, varsX, varsR>>

\* updateTask: if (status) task.status = status; task.save(); scheduleTask.
\* The route validates status as a string; the schema's enum is what save
\* accepts.
updateTask(s) ==
  /\ ExistsB
  /\ s \in TaskStatus
  /\ s = "active" => queueB < MaxJobs
  /\ taskB' = [taskB EXCEPT !.status = s]
  /\ queueB' = scheduleTask(s, queueB)
  /\ UNCHANGED <<processors, appendCount, staleSave>>
  /\ UNCHANGED <<vars, varsE, varsP, varsX, varsR>>

\* pauseTask: task.status = PAUSED; task.save().
pauseTask ==
  /\ ExistsB
  /\ taskB' = [taskB EXCEPT !.status = "paused"]
  /\ UNCHANGED <<queueB, processors, appendCount, staleSave>>
  /\ UNCHANGED <<vars, varsE, varsP, varsX, varsR>>

\* resumeTask: task.status = ACTIVE; task.save(); scheduleTask(task).
resumeTask ==
  /\ ExistsB
  /\ queueB < MaxJobs
  /\ taskB' = [taskB EXCEPT !.status = "active"]
  /\ queueB' = scheduleTask("active", queueB)
  /\ UNCHANGED <<processors, appendCount, staleSave>>
  /\ UNCHANGED <<vars, varsE, varsP, varsX, varsR>>

\* deleteTask: Task.deleteOne({_id}).
deleteTask ==
  /\ ExistsB
  /\ taskB' = [taskB EXCEPT !.status = "deleted"]
  /\ UNCHANGED <<queueB, processors, appendCount, staleSave>>
  /\ UNCHANGED <<vars, varsE, varsP, varsX, varsR>>

\* ------------------------------------------------------- task.processor
\* processDaoVoteTask and processTokenPurchaseTask have one shape: load the
\* task, return if it is not active, fetch data, push a record to the loaded
\* document, await createActivity, save the document.
\* The record a processor pushes.
ExecutionRecord(ok, time) ==
  [status |-> IF ok THEN "successful" ELSE "failed", timestamp |-> time,
   errorMessage |-> ~ok]

\* What task.save() leaves in the stored executionHistory, given the stored
\* history, the history the document was loaded with and the records pushed
\* to the document: Mongoose sends the pushes as $push.
\* Mutant of SaveHistory: save sends the document's whole array ($set).
SaveHistory_WholeArray(stored, doc, pushed) == doc \o pushed

SaveHistory(stored, doc, pushed) == stored \o pushed

\* processTokenPurchaseTask: task.status = COMPLETED if the condition of the
\* price rule contains 'once'; processDaoVoteTask never assigns status.
StatusAfterPurchase(stored, type, once) ==
  IF type = "buy_token" /\ once THEN "completed" ELSE stored

Running == {p \in Processors : processors[p].pc # "idle"}

\* A worker takes a job and its processor runs to the first await after
\* Task.findOne: a missing task throws into the outer catch, which returns
\* (task is undefined); a task that is not active returns.
processStart(p) ==
  /\ processors[p].pc = "idle"
  /\ queueB > 0
  /\ taskB.status = "active" =>
       Len(taskB.executionHistory) + Cardinality(Running) < MaxHist
  /\ queueB' = queueB - 1
  /\ processors' = [processors EXCEPT ![p] =
                      IF taskB.status = "active"
                      THEN [pc |-> "running", doc |-> taskB.executionHistory,
                            entry |-> NoEntry]
                      ELSE Idle]
  /\ UNCHANGED <<taskB, appendCount, staleSave>>
  /\ UNCHANGED <<vars, varsE, varsP, varsX, varsR>>

\* No new proposal / price condition not met: task.lastExecuted = new Date();
\* task.save().  A save of a document deleted meanwhile changes nothing.
processNoAction(p) ==
  /\ processors[p].pc = "running"
  /\ taskB' = IF ExistsB THEN [taskB EXCEPT !.lastExecuted = now] ELSE taskB
  /\ processors' = [processors EXCEPT ![p] = Idle]
  /\ UNCHANGED <<queueB, appendCount, staleSave>>
  /\ UNCHANGED <<vars, varsE, varsP, varsX, varsR>>

\* processDaoVoteTask's filter of the proposals, for the one proposal the DAO
\* has: the loaded document's history holds a SUCCESSFUL record whose details
\* name the proposal.
alreadyVoted(history) ==
  \E i \in 1..Len(history) : history[i].status = "successful"

\* task.executionHistory.push({timestamp: new Date(), status, ...}) on the
\* loaded document, then await createActivity.  processDaoVoteTask pushes a
\* SUCCESSFUL or (inner catch) a FAILED record for a proposal that is active
\* and not yet voted on; processTokenPurchaseTask pushes a SUCCESSFUL one
\* here.
processPush(p, ok) ==
  /\ processors[p].pc = "running"
  /\ taskB.type = "buy_token" => ok
  /\ taskB.type = "dao_vote" => ~alreadyVoted(processors[p].doc)
  /\ processors' = [processors EXCEPT ![p].pc = "pushed",
                                      ![p].entry = ExecutionRecord(ok, now)]
  /\ UNCHANGED <<taskB, queueB, appendCount, staleSave>>
  /\ UNCHANGED <<vars, varsE, varsP, varsX, varsR>>

\* The store after a processor's task.save() that carries `pushed`.
Saved(p, pushed, newStatus) ==
  IF ExistsB
  THEN [taskB EXCEPT !.executionHistory = SaveHistory(@, processors[p].doc, pushed),
                     !.lastExecuted = now,
                     !.status = newStatus]
  ELSE taskB

\* The outer catch: push a FAILED record, task.lastExecuted = new Date(),
\* task.save(), with no await before the save.
processError(p) ==
  /\ processors[p].pc = "running"
  /\ taskB' = Saved(p, <<ExecutionRecord(FALSE, now)>>, taskB.status)
  /\ appendCount' = IF ExistsB THEN appendCount + 1 ELSE appendCount
  /\ staleSave' = (staleSave \/ (ExistsB /\ processors[p].doc # taskB.executionHistory))
  /\ processors' = [processors EXCEPT ![p] = Idle]
  /\ UNCHANGED queueB
  /\ UNCHANGED <<vars, varsE, varsP, varsX, varsR>>

\* createActivity has returned: status COMPLETED for a one-time purchase,
\* task.lastExecuted = new Date(), task.save().
processSave(p) ==
  /\ processors[p].pc = "pushed"
  /\ taskB' = Saved(p, <<processors[p].entry>>,
                    StatusAfterPurchase(taskB.status, taskB.type, taskB.once))
  /\ appendCount' = IF ExistsB THEN appendCount + 1 ELSE appendCount
  /\ staleSave' = (staleSave \/ (ExistsB /\ processors[p].doc # taskB.executionHistory))
  /\ processors' = [processors EXCEPT ![p] = Idle]
  /\ UNCHANGED queueB
  /\ UNCHANGED <<vars, varsE, varsP, varsX, varsR>>

NextB ==
  \/ Tick
  \/ scheduleTasksByType
  \/ \E type \in {"dao_vote", "buy_token"}, once \in BOOLEAN : createTask(type, once)
  \/ \E s \in TaskStatus : updateTask(s)
  \/ pauseTask
  \/ resumeTask
  \/ deleteTask
  \/ \E p \in Processors : processStart(p)
  \/ \E p \in Processors : processNoAction(p)
  \/ \E p \in Processors, ok \in BOOLEAN : processPush(p, ok)
  \/ \E p \in Processors : processError(p)
  \/ \E p \in Processors : processSave(p)

\* ========================================================= specifications
\* ================================================= the rule of a task
\* BlockchainService.getETHPrice.
getETHPrice == MockPrice

\* The comparison of a price or a balance with its threshold: 'above' is >=,
\* 'below' is <=, any other type leaves conditionMet false.
\* Mutant of Compare: the two directions swapped.
Compare_Swapped(type, value, threshold) ==
  IF type = "above" THEN value <= threshold
  ELSE IF type = "below" THEN value >= threshold
  ELSE FALSE

Compare(type, value, threshold) ==
  IF type = "above" THEN value >= threshold
  ELSE IF type = "below" THEN value <= threshold
  ELSE FALSE

\* The comparison of the gas price: only type 'below' is looked at.
CompareGas(type, value, threshold) ==
  IF type = "below" THEN value <= threshold ELSE FALSE

\* The switch on conditionType of handleETHTransferCondition (the same switch
\* is in isETHTransferConditionMet): false when the condition object of the
\* type is missing, when the delegator of a balance rule is not found, for
\* time_based and for every other conditionType.
ConditionSwitch(c, reading, userFound) ==
  CASE c.conditionType = "price_threshold" ->
         c.present /\ Compare(c.type, reading, c.threshold)
    [] c.conditionType = "balance_threshold" ->
         c.present /\ userFound /\ Compare(c.type, reading, c.threshold)
    [] c.conditionType = "gas_price" ->
         c.present /\ CompareGas(c.type, reading, c.threshold)
    [] c.conditionType = "time_based" -> FALSE
    [] OTHER -> FALSE

\* The data gateway call the switch makes for conditions c, if any.
Fetches(c) ==
  /\ c.present
  /\ c.conditionType \in {"price_threshold", "balance_threshold", "gas_price"}

\* What a check of conditions c can read: the price feed's constant, any
\* balance or gas price of the provider, nothing when no call is made.
Fetched(c) ==
  IF ~Fetches(c) THEN {NoDate}
  ELSE IF c.conditionType = "price_threshold" THEN {getETHPrice}
  ELSE Readings

\* createETHTransferTaskHandler with the conditions of the request body,
\* which are stored as they come (Task.conditions is Mixed).
createETHTransferTaskHandler(hasKey, c) ==
  /\ taskE.status = "none"
  /\ taskE' = [taskE EXCEPT !.status = CreateStatus(hasKey),
                            !.sessionKeyId = hasKey,
                            !.conditions = c,
                            !.nextCheckAt = now + CreateDelay]
  /\ checkE' = NoCheck
  /\ UNCHANGED <<queueE, vars, varsB, varsP, varsX, varsR>>

\* updateTaskStatusHandler on this task.
updateTaskStatusHandler(s) ==
  /\ taskE.status \notin Absent
  /\ s \in {"active", "paused"}
  /\ taskE' = [taskE EXCEPT !.status = StatusUpdate(@, s)]
  /\ checkE' = NoCheck
  /\ UNCHANGED <<queueE, vars, varsB, varsP, varsX, varsR>>

\* What the loop body does to the execution queue.
\* Mutant of QueueAfterCheck: executionQueue.add moved out of the if.
QueueAfterCheck_Always(queue, conditionMet) == queue + 1

QueueAfterCheck(queue, conditionMet) ==
  IF conditionMet THEN queue + 1 ELSE queue

\* monitorTaskConditions for this task: the query and the loop body.  threw
\* is the gateway call (or the BigInt conversion of what it returned, or of
\* the stored threshold) throwing inside handleETHTransferCondition; saveOk
\* = FALSE is the first task.save() rejecting, which runs the catch branch.
monitorTaskConditions(reading, userFound, threw, saveOk) ==
  LET c == taskE.conditions
      conditionMet ==
        handleETHTransferCondition(taskE.sessionKeyId,
                                   ConditionSwitch(c, reading, userFound), threw)
  IN
  /\ taskE.status = "active"
  /\ taskE.nextCheckAt <= now
  /\ reading \in Fetched(c)
  /\ threw => Fetches(c)
  /\ ~userFound => c.conditionType = "balance_threshold" /\ c.present
  /\ conditionMet => queueE < MaxJobs
  /\ queueE' = QueueAfterCheck(queueE, conditionMet)
  /\ taskE' = [taskE EXCEPT
                 !.lastCheckedAt = now,
                 !.nextCheckAt = NextCheckAfter(@, conditionMet, ~saveOk, now)]
  /\ checkE' = [reading |-> reading, threw |-> threw, met |-> conditionMet,
                branch |-> IF ~saveOk THEN "error"
                           ELSE IF conditionMet THEN "met" ELSE "not_met"]
  /\ UNCHANGED <<vars, varsB, varsP, varsX, varsR>>

NextE ==
  \/ Tick
  \/ \E k \in BOOLEAN, ct \in ConditionTypes, pr \in BOOLEAN,
        ty \in {"above", "below"}, th \in Thresholds, rp \in ReferencePrices :
       createETHTransferTaskHandler(k,
         [type |-> ty, conditionType |-> ct, present |-> pr,
          threshold |-> th, referencePrice |-> rp])
  \/ \E s \in {"active", "paused"} : updateTaskStatusHandler(s)
  \/ \E r \in Readings \cup {getETHPrice, NoDate}, u \in BOOLEAN,
        th \in BOOLEAN, ok \in BOOLEAN :
       monitorTaskConditions(r, u, th, ok)

\* ======================================= the poller beside the worker
\* nextCheckAt of an active task is reached.
BecomeDue(t) ==
  /\ ~dueP[t]
  /\ dueP' = [dueP EXCEPT ![t] = TRUE]
  /\ lastCheckedP' = "none"
  /\ UNCHANGED <<cycleP, queueP, workerP, vars, varsB, varsE, varsX, varsR>>

\* monitoringQueue.process(monitorTaskConditions): the monitoring queue runs
\* one poll cycle at a time and nothing else; the execution queue has its own
\* processor.
\* Mutant of PollerFree: one queue and one processor for both kinds of job,
\* so a poll cycle waits for the execution that is running.
PollerFree_SharedProcessor == cycleP = {} /\ workerP = "idle"

PollerFree == cycleP = {}

\* The repeatable monitoring job fires: Task.find of the due tasks.
PollStartP ==
  /\ PollerFree
  /\ cycleP' = {t \in TasksP : dueP[t]}
  /\ lastCheckedP' = "none"
  /\ UNCHANGED <<dueP, queueP, workerP, vars, varsB, varsE, varsX, varsR>>

\* The loop body for one task: met, a job is added and nextCheckAt is not
\* written; not met (or an error), nextCheckAt moves into the future.
PollCheckP(t, met) ==
  /\ t \in cycleP
  /\ met => Len(queueP) < MaxJobs
  /\ cycleP' = cycleP \ {t}
  /\ queueP' = IF met THEN Append(queueP, t) ELSE queueP
  /\ dueP' = IF met THEN dueP ELSE [dueP EXCEPT ![t] = FALSE]
  /\ lastCheckedP' = t
  /\ UNCHANGED <<workerP, vars, varsB, varsE, varsX, varsR>>

\* The loop body for one task when the store rejects the writes of its
\* document (validation error, document gone, connection lost): task.save()
\* throws in the try block, the catch block awaits task.save() again, which
\* throws too.  That error leaves the for loop, the outer catch rethrows it
\* and the monitoring job fails: the tasks of the cycle not yet reached are
\* dropped and nothing is written for t.
PollAbortP(t) ==
  /\ t \in cycleP
  /\ cycleP' = {}
  /\ lastCheckedP' = t
  /\ UNCHANGED <<dueP, queueP, workerP, vars, varsB, varsE, varsX, varsR>>

\* executionQueue.process(executeTask): the next job, up to the await of
\* executeETHTransfer.
WorkerStartP ==
  /\ workerP = "idle"
  /\ queueP # <<>>
  /\ workerP' = Head(queueP)
  /\ queueP' = Tail(queueP)
  /\ lastCheckedP' = "none"
  /\ UNCHANGED <<dueP, cycleP, vars, varsB, varsE, varsX, varsR>>

\* executeETHTransfer returns, with success or with the error of the chain
\* call, and executeTask saves; a successful one-time task is completed and
\* so no longer due.  Nothing bounds the time the chain call takes.
WorkerReturnP(success, oneTime) ==
  /\ workerP # "idle"
  /\ workerP' = "idle"
  /\ dueP' = IF success /\ oneTime THEN [dueP EXCEPT ![workerP] = FALSE] ELSE dueP
  /\ lastCheckedP' = "none"
  /\ UNCHANGED <<cycleP, queueP, vars, varsB, varsE, varsX, varsR>>

NextP ==
  \/ \E t \in TasksP : BecomeDue(t)
  \/ PollStartP
  \/ \E t \in TasksP, m \in BOOLEAN : PollCheckP(t, m)
  \/ WorkerStartP
  \/ \E ok \in BOOLEAN, o \in BOOLEAN : WorkerReturnP(ok, o)

\* ================================= delegations and one execution attempt
\* saveDelegation: the delegation of session key k is stored as active,
\* replacing the one stored for k before.
saveDelegation(k, hasPermissions, storePrivateKey) ==
  /\ delegations' = [delegations EXCEPT ![k] =
                       [status |-> "active", pastExpiry |-> FALSE,
                        permitted |-> hasPermissions,
                        privateKey |-> storePrivateKey]]
  /\ attempt' = NoAttempt
  /\ permission' = NoPermission
  /\ UNCHANGED <<agentId, vars, varsB, varsE, varsP, varsR>>

\* The clock passes expiresAt of the delegation of k; nothing is written.
Expire(k) ==
  /\ delegations[k].status # "none"
  /\ ~delegations[k].pastExpiry
  /\ delegations' = [delegations EXCEPT ![k].pastExpiry = TRUE]
  /\ attempt' = NoAttempt
  /\ permission' = NoPermission
  /\ UNCHANGED <<agentId, vars, varsB, varsE, varsP, varsR>>

\* revokeDelegation: the delegation of k is stored as revoked.
revokeDelegation(k) ==
  /\ delegations[k].status # "none"
  /\ delegations' = [delegations EXCEPT ![k].status = "revoked"]
  /\ attempt' = NoAttempt
  /\ permission' = NoPermission
  /\ UNCHANGED <<agentId, vars, varsB, varsE, varsP, varsR>>

\* getSessionKey's write: an active delegation whose expiresAt has passed is
\* stored as expired.
MarkExpired(dels, k) ==
  IF dels[k].status = "active" /\ dels[k].pastExpiry
  THEN [dels EXCEPT ![k].status = "expired"]
  ELSE dels

\* getUserDelegations: every active delegation whose expiresAt has passed is
\* stored as expired.
getUserDelegations ==
  /\ \E k \in SessionKeys : MarkExpired(delegations, k) # delegations
  /\ delegations' = [k \in SessionKeys |-> MarkExpired(delegations, k)[k]]
  /\ attempt' = NoAttempt
  /\ permission' = NoPermission
  /\ UNCHANGED <<agentId, vars, varsB, varsE, varsP, varsR>>

\* createAgentForUser: the user gets an agent.
createAgentForUser ==
  /\ ~agentId
  /\ agentId' = TRUE
  /\ attempt' = NoAttempt
  /\ permission' = NoPermission
  /\ UNCHANGED <<delegations, vars, varsB, varsE, varsP, varsR>>

\* hasPermission's query User.findOne({'delegations.sessionKeyAddress': k,
\* 'delegations.status': 'active', 'delegations.expiresAt': {$gt: now}}):
\* MongoDB matches each condition on an array of subdocuments against any
\* element of the array, not all of them against the same one.
UserMatches(dels, k) ==
  /\ dels[k].status # "none"
  /\ \E d \in SessionKeys : dels[d].status = "active"
  /\ \E d \in SessionKeys : dels[d].status # "none" /\ ~dels[d].pastExpiry

\* hasPermission: the user is found, and the delegation with this session
\* key address has a permission for the contract and function selector.
hasPermission(dels, k) == UserMatches(dels, k) /\ dels[k].permitted

\* dtkAuthMiddleware with contract address and function selector: the
\* request goes through iff hasPermission says so.
dtkAuthMiddleware(k) ==
  /\ permission' = [key |-> k, result |-> hasPermission(delegations, k)]
  /\ attempt' = NoAttempt
  /\ UNCHANGED <<delegations, agentId, vars, varsB, varsE, varsP, varsR>>

\* executeETHTransfer's first check: getSessionKey returns a delegation, of
\* any status, and its private key decrypts.
KeyAvailable(dels, k) == dels[k].status # "none" /\ dels[k].privateKey

\* getDelegatorFromSessionKey's query User.findOne({
\* 'delegations.sessionKeyAddress': k, 'delegations.status': 'active'}).
DelegatorFound(dels, k) ==
  /\ dels[k].status # "none"
  /\ \E d \in SessionKeys : dels[d].status = "active"

\* The outcomes of executorContract.executeTransfer followed by tx.wait():
\*   "confirmed"  the transaction is sent and its receipt arrives
\*   "reverted"   the transaction is sent and fails
\*   "rejected"   the call throws before anything is sent
ChainOutcomes == {"confirmed", "reverted", "rejected"}

\* executeETHTransfer(task, user), one call for the task whose sessionKeyId
\* is TaskKey.  The agent's endpoint is outside this code: whether it has
\* submitted the transfer (agentSends) and whether the HTTP call throws
\* (agentThrows) are independent.  executorSet: ETH_TRANSFER_EXECUTOR_ADDRESS
\* is configured; development: NODE_ENV === 'development'.
executeETHTransfer(agentThrows, agentSends, executorSet, chain, development) ==
  LET dels == MarkExpired(delegations, TaskKey)
      keyOk == KeyAvailable(dels, TaskKey)
      viaAgent == keyOk /\ agentId
      agentReturns == viaAgent /\ ~agentThrows
      direct == keyOk /\ ~agentReturns /\ executorSet
      submits == direct /\ DelegatorFound(dels, TaskKey) /\ chain # "rejected"
      result == submits /\ chain = "confirmed"
  IN
  /\ ~agentId => ~agentThrows /\ ~agentSends
  /\ delegations' = dels
  /\ attempt' = [valid |-> /\ delegations[TaskKey].status = "active"
                           /\ ~delegations[TaskKey].pastExpiry,
                 agentSent |-> viaAgent /\ agentSends,
                 directSent |-> submits,
                 confirmed |-> (agentReturns /\ agentSends) \/ result,
                 reported |-> IF ~keyOk THEN "failed"
                              ELSE IF agentReturns THEN "success"
                              ELSE IF ~executorSet THEN "failed"
                              ELSE IF development \/ result THEN "success"
                              ELSE "failed"]
  /\ permission' = NoPermission
  /\ UNCHANGED <<agentId, vars, varsB, varsE, varsP, varsR>>

NextX ==
  \/ \E k \in SessionKeys, p \in BOOLEAN, s \in BOOLEAN : saveDelegation(k, p, s)
  \/ \E k \in SessionKeys : Expire(k)
  \/ \E k \in SessionKeys : revokeDelegation(k)
  \/ getUserDelegations
  \/ createAgentForUser
  \/ \E k \in SessionKeys : dtkAuthMiddleware(k)
  \/ \E at \in BOOLEAN, as \in BOOLEAN, ex \in BOOLEAN, c \in ChainOutcomes,
        dev \in BOOLEAN :
       executeETHTransfer(at, as, ex, c, dev)

\* ================================================ the API key rate limiter
\* Time passes.
AdvanceR(d) ==
  /\ clockR + d <= MaxClock
  /\ clockR' = clockR + d
  /\ lastR' = "none"
  /\ UNCHANGED <<counterR, acceptedR, vars, varsB, varsE, varsP, varsX>>

\* RateLimit.increment, the counter it stores: a new counter when there is
\* none or the stored one has resetAt < now, then count + 1.
increment(counter, time, windowMs) ==
  LET current == IF counter.resetAt = NoDate \/ counter.resetAt < time
                 THEN [count |-> 0, resetAt |-> time + windowMs]
                 ELSE counter
  IN [current EXCEPT !.count = @ + 1]

\* RateLimit.increment, the value it returns: the limit is exceeded.
Exceeded(counter, max) == counter.count > max

\* validateApiKey up to the rate limit: the reason for which the key is
\* turned down, or "ok".
KeyCheck(found, valid, ipAllowed) ==
  IF ~found THEN "invalid_key"
  ELSE IF ~valid THEN "expired"
  ELSE IF ~ipAllowed THEN "ip_restricted"
  ELSE "ok"

\* validateApiKey(key, ip).
validateApiKey(found, valid, ipAllowed) ==
  LET reason == KeyCheck(found, valid, ipAllowed)
      counter == increment(counterR, clockR, WindowArg)
      exceeded == Exceeded(counter, RequestsPerMinute)
  IN
  /\ reason = "ok" => counter.count <= MaxCount
  /\ (reason = "ok" /\ ~exceeded) => Len(acceptedR) < MaxAccepted
  /\ counterR' = IF reason = "ok" THEN counter ELSE counterR
  /\ acceptedR' = IF reason = "ok" /\ ~exceeded
                  THEN Append(acceptedR, clockR) ELSE acceptedR
  /\ lastR' = IF reason # "ok" THEN reason
              ELSE IF exceeded THEN "rate_limit_exceeded"
              ELSE "valid"
  /\ UNCHANGED <<clockR, vars, varsB, varsE, varsP, varsX>>

\* RateLimit.cleanup, run every minute: an expired entry is deleted.
cleanup ==
  /\ counterR.resetAt # NoDate
  /\ counterR.resetAt < clockR
  /\ counterR' = NoCounter
  /\ lastR' = "none"
  /\ UNCHANGED <<clockR, acceptedR, vars, varsB, varsE, varsP, varsX>>

NextR ==
  \/ \E d \in ClockSteps : AdvanceR(d)
  \/ \E f \in BOOLEAN, v \in BOOLEAN, ip \in BOOLEAN : validateApiKey(f, v, ip)
  \/ cleanup

\* The poller and the worker on a store that may reject writes.
NextQ ==
  \/ \E t \in TasksP : BecomeDue(t)
  \/ PollStartP
  \/ \E t \in TasksP, m \in BOOLEAN : PollCheckP(t, m)
  \/ \E t \in TasksP : PollAbortP(t)
  \/ WorkerStartP
  \/ \E ok \in BOOLEAN, o \in BOOLEAN : WorkerReturnP(ok, o)

allVars == <<vars, varsB, varsE, varsP, varsX, varsR>>

InitAll == Init /\ InitB /\ InitE /\ InitP /\ InitX /\ InitR

\* The ETH-transfer backend; the second backend's store stays empty.
Spec == InitAll /\ [][Next]_allVars

\* The second backend; the ETH-transfer backend's store stays empty.
SpecB == InitAll /\ [][NextB]_allVars

\* One ETH transfer task with its rule; the other stores stay empty.
SpecE == InitAll /\ [][NextE]_allVars

\* The poller beside the worker.  The repeatable job keeps firing and a poll
\* cycle goes on to its next task; the worker is promised nothing: a chain
\* call may never return.
SpecP ==
  /\ InitAll
  /\ [][NextP]_allVars
  /\ WF_allVars(PollStartP)
  /\ \A t \in TasksP : WF_allVars(\E m \in BOOLEAN : PollCheckP(t, m))

\* The poller beside the worker when the store may reject the writes of a
\* task's document.
SpecQ == InitAll /\ [][NextQ]_allVars

\* The delegations of one user and the executions of one task's jobs; the
\* other stores stay empty.
SpecX == InitAll /\ [][NextX]_allVars

\* The minute counter of one API key; the other stores stay empty.
SpecR == InitAll /\ [][NextR]_allVars

\* ================================================================ claims
TypeOK ==
  /\ now \in 0..MaxTime
  /\ status \in [Tasks -> TaskStatus \cup Absent]
  /\ pollTasks \subseteq Tasks
  /\ Len(jobs) <= MaxJobs
  /\ \A j \in JobIds : /\ jobs[j].task \in Tasks
                       /\ jobs[j].state \in {"waiting", "active", "delayed",
                                             "completed", "failed"}
                       /\ jobs[j].attemptsMade \in 0..Attempts
  /\ \A t \in Tasks : Len(executionHistory[t]) <= MaxHist
  /\ lastResult \in {"none", "success", "failed"}
  /\ lastCheckError \in BOOLEAN
  /\ taskB.status \in TaskStatus \cup Absent
  /\ queueB \in 0..MaxJobs
  /\ Len(taskB.executionHistory) <= MaxHist
  /\ \A p \in Processors : processors[p].pc \in {"idle", "running", "pushed"}
  /\ taskE.status \in TaskStatus \cup Absent
  /\ taskE.conditions.conditionType \in ConditionTypes
  /\ queueE \in 0..MaxJobs
  /\ checkE.branch \in {"none", "met", "not_met", "error"}
  /\ cycleP \subseteq TasksP
  /\ Len(queueP) <= MaxJobs
  /\ workerP \in TasksP \cup {"idle"}
  /\ lastCheckedP \in TasksP \cup {"none"}
  /\ \A k \in SessionKeys :
       delegations[k].status \in DelegationStatus \cup {"none"}
  /\ agentId \in BOOLEAN
  /\ attempt.reported \in {"none", "success", "failed"}
  /\ permission.key \in SessionKeys \cup {"none"}
  /\ clockR \in 0..MaxClock
  /\ counterR.count \in 0..MaxCount
  /\ Len(acceptedR) <= MaxAccepted
  /\ lastR \in {"none", "valid", "rate_limit_exceeded", "invalid_key",
                "expired", "ip_restricted"}

Successes(t) ==
  Cardinality({i \in 1..Len(executionHistory[t]) :
                 executionHistory[t][i].status = "success"})

JobsFor(t) == {j \in JobIds : jobs[j].task = t}

\* Job j leaves the waiting state in this step: a worker has dequeued it.
Dequeued(j) == jobs[j].state = "waiting" /\ jobs'[j].state # "waiting"

\* Job j leaves the active state in this step: its attempt has ended.
AttemptEnded(j) == jobs[j].state = "active" /\ jobs'[j].state # "active"

\* C1: a one-time task never has more than one execution-history entry with
\* status success.
C1_AtMostOneSuccess ==
  \A t \in Tasks : executionType[t] = "one-time" => Successes(t) <= 1

\* C2: when a pause is committed while a worker is executing a job of the
\* task, the worker's write does not overwrite it: both serial orders of the
\* two updates leave the task paused, so it is paused after the worker's save.
C2_NoLostUpdate ==
  [][\A j \in JobIds :
       (AttemptEnded(j) /\ status[jobs[j].task] = "paused")
         => status'[jobs[j].task] = "paused"]_vars

\* C3: every change of a stored task's status follows one of the edges
\* pending -> active, active -> paused, paused -> active, active -> completed,
\* active -> failed.
StatusEdges ==
  {<<"pending", "active">>, <<"active", "paused">>, <<"paused", "active">>,
   <<"active", "completed">>, <<"active", "failed">>}

C3_OnlyListedEdges ==
  [][\A t \in Tasks :
       (status[t] \in TaskStatus /\ status'[t] \in TaskStatus
          /\ status'[t] # status[t])
         => <<status[t], status'[t]>> \in StatusEdges]_vars

\* C4: every task a poll cycle selects as due has the stored status active at
\* the moment of the selection.
C4_SelectsOnlyActive ==
  [][\A t \in pollTasks' \ pollTasks : status[t] = "active"]_vars

\* C4 witness: a poll cycle ran its query over a stored task that is not
\* active although its nextCheckAt has passed, and did not select it.
C4_Witness ==
  \E t \in pollSkipped : status[t] = "paused" /\ t \notin pollTasks

\* C5: while a task stays paused no execution job is enqueued for it.
C5_NoEnqueueWhilePaused ==
  [][\A t \in Tasks :
       (status[t] = "paused" /\ status'[t] = "paused")
         => Len(jobs') = Len(jobs)]_vars

\* C6: a worker that dequeues a job and reads a stored task whose status is
\* not active ends the job without executing (the job never becomes active,
\* no attempt is counted) and appends no history record.
C6_SkipsNonActive ==
  [][\A j \in JobIds :
       (Dequeued(j) /\ Exists(jobs[j].task) /\ status[jobs[j].task] # "active")
         => /\ jobs'[j].state = "completed"
            /\ jobs'[j].attemptsMade = jobs[j].attemptsMade
            /\ executionHistory' = executionHistory
            /\ lastExecutedAt' = lastExecutedAt]_vars

\* C6 witness: a job of a task paused after the enqueue has been ended by the
\* worker (a job that executes appends to the history of a stored task).
C6_Witness ==
  \E j \in JobIds :
    /\ jobs[j].state = "completed"
    /\ status[jobs[j].task] = "paused"
    /\ executionHistory[jobs[j].task] = <<>>

\* C7: right after a paused task is resumed it is due: active with
\* nextCheckAt <= now.
C7_ResumeIsDue ==
  [][\A t \in Tasks :
       (status[t] = "paused" /\ status'[t] = "active") => IsDue(t, now)']_vars

\* C8: an attempt whose execution failed (a failed history entry) is retried:
\* the job counts the attempt and waits for its backoff, or is failed for good
\* after the last attempt; it does not end as completed.
C8_FailedAttemptRetried ==
  [][\A j \in JobIds :
       LET t == jobs[j].task
           h == executionHistory'[t]
       IN (/\ AttemptEnded(j)
           /\ Len(h) = Len(executionHistory[t]) + 1
           /\ h[Len(h)].status = "failed")
            => /\ jobs'[j].state \in {"delayed", "failed"}
               /\ jobs'[j].attemptsMade = jobs[j].attemptsMade + 1]_vars

\* C9: a task has exactly one execution job enqueued per check in which its
\* condition was met (three jobs for three such poll cycles).
C9_OneJobPerMetCheck ==
  \A t \in Tasks : Cardinality(JobsFor(t)) = metCount[t]

\* C9 witness: a recurring task met its condition in three checks and has
\* three jobs.
C9_Witness ==
  \E t \in Tasks :
    /\ executionType[t] = "recurring"
    /\ metCount[t] = 3
    /\ Cardinality(JobsFor(t)) = 3

\* C10: a job dequeued for a deleted task ends as a no-op: the processor does
\* not throw, so no attempt is counted as failed and nothing is retried.
C10_DeletedTaskNoOp ==
  [][\A j \in JobIds :
       (Dequeued(j) /\ status[jobs[j].task] = "deleted")
         => /\ jobs'[j].state = "completed"
            /\ jobs'[j].attemptsMade = jobs[j].attemptsMade]_vars

\* C11: the poll cycle leaves every stored task it has checked with
\* nextCheckAt >= lastCheckedAt, whichever branch (met, not met, error) ran.
\* lastCheckedAt is written by the poll cycle only.
C11_NextCheckNotBeforeLastChecked ==
  \A t \in Tasks :
    (Exists(t) /\ lastCheckedAt[t] # NoDate) => nextCheckAt[t] >= lastCheckedAt[t]

\* history is a prefix of later: nothing removed, reordered or modified.
IsPrefix(history, later) ==
  /\ Len(history) <= Len(later)
  /\ \A i \in 1..Len(history) : later[i] = history[i]

\* C12: the stored execution history only grows by appending: in every step
\* the history before the step is a prefix of the history after it.
C12_HistoryAppendOnly ==
  [][\A t \in Tasks : IsPrefix(executionHistory[t], executionHistory'[t])]_vars

\* C12 witness: a second record has been appended behind a first one.
C12_Witness ==
  \E t \in Tasks :
    /\ Len(executionHistory[t]) = 2
    /\ executionHistory[t][1] # executionHistory[t][2]

\* C13: appending an execution record is atomic.  With two processors
\* writing the same task concurrently, every record a save has appended is
\* still in the stored history.
C13_NoAppendLost ==
  ExistsB => Len(taskB.executionHistory) = appendCount

\* C13 witness: two records are stored, and one of the two saves ran on a
\* document loaded before the other save.
C13_Witness ==
  /\ ExistsB
  /\ staleSave
  /\ appendCount = 2
  /\ Len(taskB.executionHistory) = 2

\* C14: the timestamps of a task's stored history never decrease from one
\* entry to the next, also with jobs of the task processed concurrently.
C14_TimestampsNonDecreasing ==
  \A i \in 1..Len(taskB.executionHistory) :
    \A k \in i..Len(taskB.executionHistory) :
      taskB.executionHistory[i].timestamp <= taskB.executionHistory[k].timestamp

\* C15: a status transition requested from a status other than the stored one
\* leaves the stored status unchanged.  A pause is the transition from
\* active to paused and the worker's completion is the transition from
\* active to completed, so the stored status becomes paused or completed
\* only from active.
C15_StaleTransitionRejected ==
  [][\A t \in Tasks :
       (status[t] \in TaskStatus /\ status'[t] # status[t]
          /\ status'[t] \in {"paused", "completed"})
         => status[t] = "active"]_vars

\* C16: the stored status becomes completed only in the save of a processor
\* that has executed a one-time task successfully; no other operation sets
\* completed.
C16_CompletedOnlyByOneTimeSuccess ==
  [][(taskB'.status = "completed" /\ taskB.status # "completed")
       => \E p \in Processors :
            /\ processors[p].pc = "pushed"
            /\ processors'[p].pc = "idle"
            /\ processors[p].entry.status = "successful"
            /\ taskB.once]_allVars

\* The last entry of a history.
Last(history) == history[Len(history)]

Checked == checkE.branch # "none"

\* C21: a task whose rule has an unknown condition type is failed by the
\* scheduler's check: once the poll cycle has checked it, its status is
\* failed.
C21_UnknownTypeFails ==
  (Checked /\ taskE.conditions.conditionType = "other")
    => taskE.status = "failed"

\* C22: a gateway call that fails during a check reaches the poll cycle as an
\* error: the loop body runs its catch branch, not the branch of a condition
\* that was evaluated and found not met.
C22_GatewayFailurePropagates ==
  (Checked /\ checkE.threw) => checkE.branch = "error"

\* C23: a check in which the evaluator reports the condition not met adds no
\* job to the execution queue, leaves the task active and changes nothing of
\* the task but lastCheckedAt and nextCheckAt.
C23_NotMetOnlyStampsCheckTimes ==
  [][checkE'.branch = "not_met" =>
       /\ queueE' = queueE
       /\ taskE'.status = "active"
       /\ taskE' = [taskE EXCEPT !.lastCheckedAt = taskE'.lastCheckedAt,
                                 !.nextCheckAt = taskE'.nextCheckAt]]_allVars

\* A rule with a session key whose data was fetched and compared, and the
\* comparison said no.
C23_Witness ==
  /\ checkE.branch = "not_met"
  /\ ~checkE.threw
  /\ checkE.reading # NoDate
  /\ taskE.sessionKeyId
  /\ taskE.lastCheckedAt = now
  /\ taskE.nextCheckAt = now + NotMetDelay
  /\ queueE = 0

\* C24: an active time_based task is triggered by the scheduler on its
\* cadence, without any data comparison: the poll cycle that has checked it
\* has put an execution job in the queue.
C24_TimeBasedTriggered ==
  (Checked /\ taskE.conditions.conditionType = "time_based" /\ taskE.sessionKeyId)
    => queueE > 0

\* C25: a job that a worker had already dequeued when its task was paused
\* still runs to completion: its attempt ends with the job completed and with
\* the outcome of the execution appended to the task's history.
C25_InFlightJobFinishes ==
  [][\A j \in JobIds :
       (AttemptEnded(j) /\ status[jobs[j].task] = "paused") =>
         LET t == jobs[j].task IN
         /\ jobs'[j].state = "completed"
         /\ Len(executionHistory'[t]) = Len(executionHistory[t]) + 1
         /\ IsPrefix(executionHistory[t], executionHistory'[t])
         /\ Last(executionHistory'[t]).status = lastResult'
         /\ Last(executionHistory'[t]).timestamp = now]_allVars

\* The worker admits jobs of active tasks only, so a task that is paused
\* right after an execution returned was paused while its job was running.
C25_Witness ==
  \E j \in JobIds :
    LET t == jobs[j].task IN
    /\ lastResult # "none"
    /\ status[t] = "paused"
    /\ jobs[j].state = "completed"
    /\ executionHistory[t] # <<>>
    /\ Last(executionHistory[t]).status = lastResult

\* C26: a chain call that is slow or fails while one task is executed does
\* not hold up the checks of the other tasks: a task that is due while the
\* worker is inside the execution of another task is checked by a poll
\* cycle (unless it stops being active and due first), whether or not that
\* execution ever returns.
C26_OthersStillChecked ==
  \A t \in TasksP :
    (dueP[t] /\ workerP \notin {"idle", t}) ~> (lastCheckedP = t \/ ~dueP[t])

\* A task is checked while the worker is still inside the execution of the
\* other one.
C26_Witness ==
  /\ lastCheckedP = "t2"
  /\ workerP = "t1"

\* C27: every active task has a usable session key: a task without a bound
\* session key is never active.
C27_ActiveHasSessionKey ==
  \A t \in Tasks : status[t] = "active" => sessionKeyId[t]

Evaluated(conditionType) ==
  /\ Checked
  /\ taskE.conditions.conditionType = conditionType
  /\ taskE.conditions.present
  /\ taskE.sessionKeyId
  /\ ~checkE.threw

\* C29: a gas_price condition is met when the current gas price is below
\* gasPriceThreshold and not met when it is above it, whatever direction the
\* rule carries.
C29_GasBelowThresholdMet ==
  Evaluated("gas_price") =>
    /\ checkE.reading < taskE.conditions.threshold => checkE.met
    /\ checkE.reading > taskE.conditions.threshold => ~checkE.met

\* C30: a price_threshold rule with direction below is met when the current
\* price is below priceThreshold and not met when it is above it, whatever
\* its referencePrice.
C30_PriceBelowThresholdMet ==
  (Evaluated("price_threshold") /\ taskE.conditions.type = "below") =>
    /\ checkE.reading < taskE.conditions.threshold => checkE.met
    /\ checkE.reading > taskE.conditions.threshold => ~checkE.met

\* The rule of the spec's round trip, one hundred dollars up: the feed says
\* 3000, the threshold is 3100, the reference price 3150.
C30_Witness ==
  /\ Evaluated("price_threshold")
  /\ taskE.conditions.type = "below"
  /\ taskE.conditions.threshold = 3100
  /\ taskE.conditions.referencePrice = 3150
  /\ checkE.reading = 3000
  /\ checkE.met
  /\ queueE = 1

\* C31: the condition evaluator is pure: two evaluations of the same task with
\* the same rule return the same verdict.
C31_EvaluatorPure ==
  [][(/\ Checked
      /\ checkE'.branch # "none"
      /\ taskE'.conditions = taskE.conditions
      /\ taskE'.sessionKeyId = taskE.sessionKeyId)
     => checkE'.met = checkE.met]_allVars

\* The jobs of task t that are queued or being processed: waiting, running
\* or awaiting a retry.
Pending(t) == {j \in JobsFor(t) : jobs[j].state \in {"waiting", "active", "delayed"}}

\* C32 (as claimed): at any time at most one execution job of a one-time task
\* is queued or being processed.
C32_AtMostOnePendingJob ==
  \A t \in Tasks : executionType[t] = "one-time" => Cardinality(Pending(t)) <= 1

\* C32: several execution jobs of a one-time task may be queued at once, but
\* at most one of them is being processed at any time.
C32_AtMostOneJobProcessed ==
  \A t \in Tasks :
    executionType[t] = "one-time" =>
      Cardinality({j \in JobsFor(t) : jobs[j].state = "active"}) <= 1

\* A one-time task with two jobs in the queue, one of them being processed.
C32_Witness ==
  \E t \in Tasks :
    /\ executionType[t] = "one-time"
    /\ Cardinality(Pending(t)) >= 2
    /\ \E j \in JobsFor(t) : jobs[j].state = "active"

\* An execution has just run.
Attempted == attempt.reported # "none"

\* C33: no transfer is sent for a task whose session key's delegation is
\* expired or revoked when the worker runs the job.
C33_NoTransferWithoutValidDelegation ==
  (Attempted /\ (attempt.agentSent \/ attempt.directSent)) => attempt.valid

\* C34: one execution attempt submits at most one transfer: once the agent
\* has submitted it, the direct path sends nothing for that attempt.
C34_AtMostOneTransferPerAttempt ==
  Attempted => ~(attempt.agentSent /\ attempt.directSent)

\* C38: an execution is reported as success, and so recorded in the history,
\* only when the blockchain execution invoked for it reported success.
C38_SuccessOnlyWhenConfirmed ==
  attempt.reported = "success" => attempt.confirmed

\* C40: hasPermission is true for a session key only if the delegation stored
\* for that key is itself active and unexpired.
C40_PermissionNeedsOwnDelegation ==
  (permission.key # "none" /\ permission.result) =>
    /\ delegations[permission.key].status = "active"
    /\ ~delegations[permission.key].pastExpiry

\* C35: polling of an active task never stalls: whatever the outcome of a
\* check (met, not met, error), the task is still active after it and its
\* nextCheckAt is at most 15 minutes after the check, so a later poll cycle
\* selects it again.
C35_CheckKeepsTaskPollable ==
  [][\A t \in Tasks :
       (t \in pollTasks /\ t \notin pollTasks' /\ status[t] = "active")
         => /\ status'[t] = "active"
            /\ nextCheckAt'[t] # NoDate
            /\ nextCheckAt'[t] <= now + ErrorDelay]_vars

\* A task that was checked with its condition met, so that a job of it is
\* queued, and whose next check has just ended in the catch branch.
C35_Witness ==
  \E t \in Tasks :
    /\ status[t] = "active"
    /\ JobsFor(t) # {}
    /\ lastCheckError
    /\ lastCheckedAt[t] = now
    /\ nextCheckAt[t] = now + ErrorDelay
    /\ t \notin pollTasks

\* C36: an error while checking one task does not stop the poll cycle: a task
\* selected by the cycle leaves it only by being checked itself.
C36_ErrorDoesNotStopCycle ==
  [][\A t \in TasksP :
       (t \in cycleP /\ t \notin cycleP') => lastCheckedP' = t]_allVars

\* C37: a task never records two successful votes on the same proposal of
\* the DAO, also when several of its jobs are processed concurrently.
C37_NoDoubleVote ==
  taskB.type = "dao_vote" =>
    Cardinality({i \in 1..Len(taskB.executionHistory) :
                   taskB.executionHistory[i].status = "successful"}) <= 1

\* C39: for an API key, validateApiKey accepts at most requestsPerMinute
\* requests within any 60-second window; every further request in the window
\* is rejected with rate_limit_exceeded.
C39_AtMostLimitPerMinute ==
  \A i \in 1..Len(acceptedR) :
    Cardinality({j \in i..Len(acceptedR) :
                   acceptedR[j] < acceptedR[i] + MinuteMs}) <= RequestsPerMinute

====
